---- MODULE Spec2Model ----
\* A model of the localauthentication-rs binding (src/src/lib.rs,
\* src/src/external.rs): the LocalAuthentication session, its three
\* operations, and the LAPolicy <-> Int conversions.
EXTENDS Integers, Sequences, FiniteSets, TLC

\* ---------------------------------------------------------------- bounds
NumSessions == 2
MaxCalls == 2
MaxReasonLen == 1
MaxInt == 8

Sessions == 1..NumSessions
IntRange == (0 - MaxInt)..MaxInt

\* Bytes a reason text is built from: NUL and 'a' (both valid UTF-8).
ReasonBytes == {0, 97}

RECURSIVE SeqsUpTo(_)
SeqsUpTo(n) ==
    IF n = 0 THEN {<<>>}
    ELSE LET shorter == SeqsUpTo(n - 1)
         IN  shorter \cup {Append(r, b) : r \in {q \in shorter : Len(q) = n - 1}, b \in ReasonBytes}

Reasons == SeqsUpTo(MaxReasonLen)

\* ---------------------------------------------------------------- LAPolicy
LAPolicy ==
    {"DeviceOwnerAuthenticationWithBiometrics",
     "DeviceOwnerAuthentication",
     "DeviceOwnerAuthenticationWithWatch",
     "DeviceOwnerAuthenticationWithBiometricsOrWatch",
     "Unknown"}

\* impl From<Int> for LAPolicy, with the watch codes exchanged
LAPolicy_from_swapped(value) ==
    CASE value = 1 -> "DeviceOwnerAuthenticationWithBiometrics"
      [] value = 2 -> "DeviceOwnerAuthentication"
      [] value = 3 -> "DeviceOwnerAuthenticationWithBiometricsOrWatch"
      [] value = 4 -> "DeviceOwnerAuthenticationWithWatch"
      [] OTHER -> "Unknown"

\* impl From<Int> for LAPolicy, with a zero-based match
LAPolicy_from_zero_based(value) ==
    CASE value = 0 -> "DeviceOwnerAuthenticationWithBiometrics"
      [] value = 1 -> "DeviceOwnerAuthentication"
      [] value = 2 -> "DeviceOwnerAuthenticationWithWatch"
      [] value = 3 -> "DeviceOwnerAuthenticationWithBiometricsOrWatch"
      [] OTHER -> "Unknown"

\* impl From<Int> for LAPolicy
LAPolicy_from(value) ==
    CASE value = 1 -> "DeviceOwnerAuthenticationWithBiometrics"
      [] value = 2 -> "DeviceOwnerAuthentication"
      [] value = 3 -> "DeviceOwnerAuthenticationWithWatch"
      [] value = 4 -> "DeviceOwnerAuthenticationWithBiometricsOrWatch"
      [] OTHER -> "Unknown"

\* impl From<LAPolicy> for Int, with the wildcard arm returning 0
Int_from_zero_wildcard(value) ==
    CASE value = "DeviceOwnerAuthenticationWithBiometrics" -> 1
      [] value = "DeviceOwnerAuthentication" -> 2
      [] value = "DeviceOwnerAuthenticationWithWatch" -> 3
      [] value = "DeviceOwnerAuthenticationWithBiometricsOrWatch" -> 4
      [] OTHER -> 0

\* impl From<LAPolicy> for Int, with the variants numbered from 0
Int_from_zero_based(value) ==
    CASE value = "DeviceOwnerAuthenticationWithBiometrics" -> 0
      [] value = "DeviceOwnerAuthentication" -> 1
      [] value = "DeviceOwnerAuthenticationWithWatch" -> 2
      [] value = "DeviceOwnerAuthenticationWithBiometricsOrWatch" -> 3
      [] OTHER -> 0 - 1

\* impl From<LAPolicy> for Int
Int_from(value) ==
    CASE value = "DeviceOwnerAuthenticationWithBiometrics" -> 1
      [] value = "DeviceOwnerAuthentication" -> 2
      [] value = "DeviceOwnerAuthenticationWithWatch" -> 3
      [] value = "DeviceOwnerAuthenticationWithBiometricsOrWatch" -> 4
      [] OTHER -> 0 - 1

\* ---------------------------------------------------------------- SRString
RECURSIVE UpToNul(_)
UpToNul(bytes) ==
    IF bytes = <<>> \/ Head(bytes) = 0 THEN <<>>
    ELSE <<Head(bytes)>> \o UpToNul(Tail(bytes))

\* reason.into() done as a NUL-terminated C string
SRString_from_cstr(reason) ==
    [length |-> Len(UpToNul(reason)), bytes |-> UpToNul(reason)]

\* let string: SRString = reason.into();  a length-delimited copy of the bytes
SRString_from(reason) ==
    [length |-> Len(reason), bytes |-> reason]

\* The text the platform reads out of the SRString it is handed.
SRString_as_str(string) ==
    SubSeq(string.bytes, 1, string.length)

\* ---------------------------------------------------------------- platform
\* Final outcomes of one platform evaluation.
PlatformOutcomes == {"success", "cancelled", "lockout", "mismatch", "noHardware"}

\* func lacontext_new() -> LAContext : a context not handed out before
lacontext_new(handedOut) == handedOut + 1

\* func lacontext_evaluatePolicy(...) -> Bool : the Bool of a final outcome
lacontext_evaluatePolicy_result(outcome) == outcome = "success"

\* ---------------------------------------------------------------- state
\* One calling thread: a LocalAuthentication holds an SRObject, which is
\* neither Send nor Sync, and every operation runs synchronously on the
\* caller's thread. Sessions are numbered in the order new() creates them.
VARIABLES
    context,     \* LocalAuthentication.context of each session (0: not constructed)
    pc,          \* where the calling thread is: "idle", or "blocked" inside the platform
    allocated,   \* number of contexts the platform has handed out
    pending,     \* the evaluate_policy call the calling thread is inside
    lastCall,    \* the last call that returned
    apiCount,    \* calls made to the binding
    platCount,   \* calls that reached the platform's entry points
    conv         \* the conversions applied to one drawn input

vars == <<context, pc, allocated, pending, lastCall, apiCount, platCount, conv>>

NoContext == 0

NoPending ==
    [session |-> 0, policy |-> "Unknown", reason |-> <<>>, recvContext |-> NoContext,
     recvCode |-> 0, recvReason |-> <<>>, started |-> 0, outcome |-> "none"]

NoCall ==
    [session |-> 0, op |-> "none", policy |-> "Unknown", reason |-> <<>>,
     recvContext |-> NoContext, recvCode |-> 0, recvReason |-> <<>>,
     outcome |-> "none", answer |-> FALSE, result |-> FALSE]

NoConv ==
    [intIn |-> 0, polIn |-> "Unknown", intOut |-> 0, polOut |-> "Unknown",
     polBack |-> "Unknown", intBack |-> 0, done |-> {}]

SessionInit ==
    /\ context = [s \in Sessions |-> NoContext]
    /\ pc = "idle"
    /\ allocated = 0
    /\ pending = NoPending
    /\ lastCall = NoCall
    /\ apiCount = [can |-> 0, evaluate |-> 0, returned |-> 0]
    /\ platCount = [can |-> 0, evaluate |-> 0, done |-> 0]

Init ==
    /\ SessionInit
    /\ conv = NoConv

sessionVars == <<context, pc, allocated, pending, lastCall, apiCount, platCount>>

Constructed(s) == context[s] # NoContext

\* ---------------------------------------------------------------- new
\* LocalAuthentication::new handing every session one process-wide context
new_shared(s) ==
    /\ pc = "idle"
    /\ ~Constructed(s)
    /\ \A t \in Sessions : t < s => Constructed(t)
    /\ context' = [context EXCEPT ![s] = 1]
    /\ allocated' = IF allocated = 0 THEN 1 ELSE allocated
    /\ UNCHANGED <<pc, pending, lastCall, apiCount, platCount, conv>>

\* pub fn new() -> Self
new(s) ==
    /\ pc = "idle"
    /\ ~Constructed(s)
    /\ \A t \in Sessions : t < s => Constructed(t)
    /\ context' = [context EXCEPT ![s] = lacontext_new(allocated)]
    /\ allocated' = allocated + 1
    /\ UNCHANGED <<pc, pending, lastCall, apiCount, platCount, conv>>

\* ---------------------------------------------------------------- can_evaluate_policy
CallsLeft == apiCount.can + apiCount.evaluate < MaxCalls

\* can_evaluate_policy returning the negation of the platform's answer
can_evaluate_policy_inverted(s, policy) ==
    /\ pc = "idle"
    /\ Constructed(s)
    /\ CallsLeft
    /\ \E answer \in BOOLEAN :
          lastCall' =
              [session |-> s, op |-> "can_evaluate", policy |-> policy, reason |-> <<>>,
               recvContext |-> context[s], recvCode |-> Int_from(policy),
               recvReason |-> <<>>, outcome |-> "none",
               answer |-> answer, result |-> ~answer]
    /\ apiCount' = [apiCount EXCEPT !.can = @ + 1]
    /\ platCount' = [platCount EXCEPT !.can = @ + 1]
    /\ UNCHANGED <<context, pc, allocated, pending, conv>>

\* pub fn can_evaluate_policy(&self, policy: LAPolicy) -> bool
\* The platform's answer is any Bool.
can_evaluate_policy(s, policy) ==
    /\ pc = "idle"
    /\ Constructed(s)
    /\ CallsLeft
    /\ \E answer \in BOOLEAN :
          lastCall' =
              [session |-> s, op |-> "can_evaluate", policy |-> policy, reason |-> <<>>,
               recvContext |-> context[s], recvCode |-> Int_from(policy),
               recvReason |-> <<>>, outcome |-> "none",
               answer |-> answer, result |-> answer]
    /\ apiCount' = [apiCount EXCEPT !.can = @ + 1]
    /\ platCount' = [platCount EXCEPT !.can = @ + 1]
    /\ UNCHANGED <<context, pc, allocated, pending, conv>>

\* ---------------------------------------------------------------- evaluate_policy
\* evaluate_policy asking the platform's can-evaluate entry point first and
\* returning false without an evaluation when the answer is false
evaluate_policy_checked(s, policy, reason) ==
    /\ pc = "idle"
    /\ Constructed(s)
    /\ CallsLeft
    /\ apiCount' = [apiCount EXCEPT !.evaluate = @ + 1]
    /\ \E can \in BOOLEAN :
          IF can
          THEN /\ pending' =
                      [session |-> s, policy |-> policy, reason |-> reason,
                       recvContext |-> context[s], recvCode |-> Int_from(policy),
                       recvReason |-> SRString_as_str(SRString_from(reason)),
                       started |-> 1, outcome |-> "pending"]
               /\ platCount' = [platCount EXCEPT !.can = @ + 1, !.evaluate = @ + 1]
               /\ pc' = "blocked"
               /\ UNCHANGED lastCall
          ELSE /\ lastCall' =
                      [session |-> s, op |-> "evaluate", policy |-> policy, reason |-> reason,
                       recvContext |-> context[s], recvCode |-> Int_from(policy),
                       recvReason |-> reason, outcome |-> "none",
                       answer |-> FALSE, result |-> FALSE]
               /\ platCount' = [platCount EXCEPT !.can = @ + 1]
               /\ UNCHANGED <<pc, pending>>
    /\ UNCHANGED <<context, allocated, conv>>

\* evaluate_policy asking the platform for a fresh context for every call
evaluate_policy_rebind(s, policy, reason) ==
    /\ pc = "idle"
    /\ Constructed(s)
    /\ CallsLeft
    /\ context' = [context EXCEPT ![s] = lacontext_new(allocated)]
    /\ allocated' = allocated + 1
    /\ pending' =
          [session |-> s, policy |-> policy, reason |-> reason,
           recvContext |-> lacontext_new(allocated), recvCode |-> Int_from(policy),
           recvReason |-> SRString_as_str(SRString_from(reason)),
           started |-> 1, outcome |-> "pending"]
    /\ apiCount' = [apiCount EXCEPT !.evaluate = @ + 1]
    /\ platCount' = [platCount EXCEPT !.evaluate = @ + 1]
    /\ pc' = "blocked"
    /\ UNCHANGED <<lastCall, conv>>

\* pub fn evaluate_policy(&self, policy: LAPolicy, reason: &str) -> bool,
\* up to the entry into lacontext_evaluatePolicy: the calling thread is now
\* inside the platform call.
evaluate_policy(s, policy, reason) ==
    /\ pc = "idle"
    /\ Constructed(s)
    /\ CallsLeft
    /\ pending' =
          [session |-> s, policy |-> policy, reason |-> reason,
           recvContext |-> context[s], recvCode |-> Int_from(policy),
           recvReason |-> SRString_as_str(SRString_from(reason)),
           started |-> 1, outcome |-> "pending"]
    /\ apiCount' = [apiCount EXCEPT !.evaluate = @ + 1]
    /\ platCount' = [platCount EXCEPT !.evaluate = @ + 1]
    /\ pc' = "blocked"
    /\ UNCHANGED <<context, allocated, lastCall, conv>>

\* The platform produces the final outcome of the evaluation the thread waits for.
lacontext_evaluatePolicy ==
    /\ pc = "blocked"
    /\ pending.outcome = "pending"
    /\ \E outcome \in PlatformOutcomes :
          pending' = [pending EXCEPT !.outcome = outcome]
    /\ platCount' = [platCount EXCEPT !.done = @ + 1]
    /\ UNCHANGED <<context, pc, allocated, lastCall, apiCount, conv>>

\* The record of an evaluate_policy call that returns result.
Returned(result) ==
    [session |-> pending.session, op |-> "evaluate", policy |-> pending.policy,
     reason |-> pending.reason, recvContext |-> pending.recvContext,
     recvCode |-> pending.recvCode, recvReason |-> pending.recvReason,
     outcome |-> pending.outcome,
     answer |-> lacontext_evaluatePolicy_result(pending.outcome),
     result |-> result]

\* evaluate_policy returning false at once instead of waiting for the platform
evaluate_policy_return_early ==
    /\ pc = "blocked"
    /\ lastCall' = Returned(lacontext_evaluatePolicy_result(pending.outcome))
    /\ pending' = NoPending
    /\ apiCount' = [apiCount EXCEPT !.returned = @ + 1]
    /\ pc' = "idle"
    /\ UNCHANGED <<context, allocated, platCount, conv>>

\* return unsafe { lacontext_evaluatePolicy(...) }.into();
\* the platform call has returned its Bool, evaluate_policy returns it.
evaluate_policy_return ==
    /\ pc = "blocked"
    /\ pending.outcome \in PlatformOutcomes
    /\ lastCall' = Returned(lacontext_evaluatePolicy_result(pending.outcome))
    /\ pending' = NoPending
    /\ apiCount' = [apiCount EXCEPT !.returned = @ + 1]
    /\ pc' = "idle"
    /\ UNCHANGED <<context, allocated, platCount, conv>>

\* ---------------------------------------------------------------- specification
Next ==
    \/ \E s \in Sessions : new(s)
    \/ \E s \in Sessions, policy \in LAPolicy : can_evaluate_policy(s, policy)
    \/ \E s \in Sessions, policy \in LAPolicy, reason \in Reasons :
          evaluate_policy(s, policy, reason)
    \/ lacontext_evaluatePolicy
    \/ evaluate_policy_return

Spec == Init /\ [][Next]_vars

\* ---------------------------------------------------------------- conversions
\* One policy and one integer are drawn; each conversion is applied to them.
ConvInit ==
    /\ SessionInit
    /\ conv \in {[NoConv EXCEPT !.intIn = i, !.polIn = p] : i \in IntRange, p \in LAPolicy}

\* let code: Int = policy.into();
PolicyIntoInt ==
    /\ "into" \notin conv.done
    /\ conv' = [conv EXCEPT !.intOut = Int_from(conv.polIn), !.done = @ \cup {"into"}]
    /\ UNCHANGED sessionVars

\* let policy: LAPolicy = code.into();
IntIntoPolicy ==
    /\ "from" \notin conv.done
    /\ conv' = [conv EXCEPT !.polOut = LAPolicy_from(conv.intIn), !.done = @ \cup {"from"}]
    /\ UNCHANGED sessionVars

\* LAPolicy::from(Int::from(policy))
PolicyRoundTrip ==
    /\ "into" \in conv.done
    /\ "polBack" \notin conv.done
    /\ conv' = [conv EXCEPT !.polBack = LAPolicy_from(conv.intOut), !.done = @ \cup {"polBack"}]
    /\ UNCHANGED sessionVars

\* Int::from(LAPolicy::from(code))
IntRoundTrip ==
    /\ "from" \in conv.done
    /\ "intBack" \notin conv.done
    /\ conv' = [conv EXCEPT !.intBack = Int_from(conv.polOut), !.done = @ \cup {"intBack"}]
    /\ UNCHANGED sessionVars

NextConv ==
    \/ PolicyIntoInt
    \/ IntIntoPolicy
    \/ PolicyRoundTrip
    \/ IntRoundTrip

SpecConv == ConvInit /\ [][NextConv]_vars

\* ---------------------------------------------------------------- properties
\* The fixed table of platform policy codes.
CodeTable ==
    [p \in LAPolicy |->
        CASE p = "DeviceOwnerAuthenticationWithBiometrics" -> 1
          [] p = "DeviceOwnerAuthentication" -> 2
          [] p = "DeviceOwnerAuthenticationWithWatch" -> 3
          [] p = "DeviceOwnerAuthenticationWithBiometricsOrWatch" -> 4
          [] p = "Unknown" -> 0 - 1]

DefinedPolicies == LAPolicy \ {"Unknown"}

InEvaluate == pending.outcome # "none"

\* C1 as stated: whatever LAPolicy value a call is given, the policy code that
\* reaches the platform's can-evaluate and evaluate entry points is one of
\* 1, 2, 3, 4, never -1.
C1_AnyPolicySendsDefinedCode ==
    /\ lastCall.op # "none" => lastCall.recvCode \in 1..4
    /\ InEvaluate => pending.recvCode \in 1..4

\* C1 amended: a call given one of the four defined variants sends a code in
\* 1..4; a call given Unknown is not rejected and sends -1 to the platform.
C1_DefinedPolicySendsDefinedCode ==
    /\ lastCall.op # "none" =>
          IF lastCall.policy \in DefinedPolicies
          THEN lastCall.recvCode \in 1..4
          ELSE lastCall.recvCode = 0 - 1
    /\ InEvaluate =>
          IF pending.policy \in DefinedPolicies
          THEN pending.recvCode \in 1..4
          ELSE pending.recvCode = 0 - 1

C1_Witness ==
    /\ lastCall.op = "can_evaluate"
    /\ lastCall.policy = "DeviceOwnerAuthenticationWithBiometricsOrWatch"
    /\ lastCall.recvCode = 4
    /\ InEvaluate
    /\ pending.policy = "Unknown"
    /\ pending.recvCode = 0 - 1

\* C2: for each of the four defined variants, enum -> integer -> enum gives
\* back the original variant.
C2_DefinedRoundTrip ==
    ("polBack" \in conv.done /\ conv.polIn \in DefinedPolicies) => conv.polBack = conv.polIn

C2_Witness ==
    /\ "polBack" \in conv.done
    /\ conv.polIn = "DeviceOwnerAuthenticationWithWatch"
    /\ conv.intOut = 3
    /\ conv.polBack = "DeviceOwnerAuthenticationWithWatch"

\* C3: both conversions are total and follow the fixed table: enum -> integer
\* is 1, 2, 3, 4, -1; integer -> enum is the inverse on 1..4 and Unknown for
\* every other integer.
C3_ConversionTable ==
    /\ "into" \in conv.done => conv.intOut = CodeTable[conv.polIn]
    /\ "from" \in conv.done =>
          /\ conv.polOut \in LAPolicy
          /\ conv.intIn \in 1..4 =>
                conv.polOut \in DefinedPolicies /\ CodeTable[conv.polOut] = conv.intIn
          /\ conv.intIn \notin 1..4 => conv.polOut = "Unknown"

C3_Witness ==
    /\ {"into", "from"} \subseteq conv.done
    /\ conv.intIn = 5
    /\ conv.polOut = "Unknown"
    /\ conv.polIn = "Unknown"
    /\ conv.intOut = 0 - 1

\* C4: evaluate_policy hands the platform the session's own context, the
\* policy's code and the caller's reason text unchanged, and returns exactly
\* the platform's Bool: true on success, false on every other outcome.
C4_EvaluatePassThrough ==
    /\ InEvaluate =>
          /\ pending.recvContext = context[pending.session]
          /\ pending.recvCode = CodeTable[pending.policy]
          /\ pending.recvReason = pending.reason
    /\ lastCall.op = "evaluate" =>
          /\ lastCall.recvContext = context[lastCall.session]
          /\ lastCall.recvCode = CodeTable[lastCall.policy]
          /\ lastCall.recvReason = lastCall.reason
          /\ lastCall.outcome \in PlatformOutcomes
          /\ lastCall.result \in BOOLEAN
          /\ lastCall.result = lastCall.answer
          /\ lastCall.result <=> (lastCall.outcome = "success")

C4_Witness ==
    /\ lastCall.op = "evaluate"
    /\ lastCall.session = 2
    /\ lastCall.outcome = "cancelled"
    /\ ~lastCall.result
    /\ lastCall.reason = <<0>>
    /\ lastCall.recvReason = <<0>>
    /\ lastCall.recvContext = context[2]
    /\ apiCount.returned = 2

\* C5: can_evaluate_policy hands the platform the session's own context and
\* the policy's code and returns the platform's answer unmodified, true or
\* false.
C5_CanEvaluatePassThrough ==
    lastCall.op = "can_evaluate" =>
        /\ lastCall.recvContext = context[lastCall.session]
        /\ lastCall.recvCode = CodeTable[lastCall.policy]
        /\ lastCall.result = lastCall.answer

C5_Witness ==
    /\ lastCall.op = "can_evaluate"
    /\ lastCall.session = 2
    /\ lastCall.recvContext = context[2]
    /\ ~lastCall.answer
    /\ ~lastCall.result
    /\ apiCount.can = 2

C6_DistinctContexts ==
    \A s, t \in Sessions :
        (s # t /\ Constructed(s) /\ Constructed(t)) =>
            /\ context[s] # context[t]
            /\ (lastCall.op # "none" /\ lastCall.session = s) => lastCall.recvContext # context[t]
            /\ (InEvaluate /\ pending.session = s) => pending.recvContext # context[t]

C6_Frame ==
    \A s, t \in Sessions :
        (s # t /\ Constructed(t) /\ (lastCall'.session = s \/ pending'.session = s)
               /\ (lastCall' # lastCall \/ pending' # pending)) =>
            context'[t] = context[t]

\* C6: two sessions hold two distinct contexts, every platform call made for
\* one session carries a context the other does not hold, and a call on one
\* session leaves the other session's context unchanged.
C6_SessionsIndependent ==
    []C6_DistinctContexts /\ [][C6_Frame]_vars

C6_Witness ==
    /\ \A s \in 1..2 : Constructed(s)
    /\ context[1] # context[2]
    /\ lastCall.op = "evaluate"
    /\ lastCall.session = 1
    /\ InEvaluate
    /\ pending.session = 2
    /\ pending.recvContext = context[2]

C7_OneContext ==
    allocated = Cardinality({s \in Sessions : Constructed(s)})

C7_NeverRebound ==
    /\ \A s \in Sessions : Constructed(s) => context'[s] = context[s]
    /\ allocated' # allocated =>
          /\ allocated' = allocated + 1
          /\ apiCount' = apiCount
          /\ \E s \in Sessions : ~Constructed(s) /\ context'[s] = allocated'

\* C7: each constructed session holds exactly one context, the one new()
\* obtained; no call replaces it or asks the platform for another one.
C7_ContextFixed ==
    []C7_OneContext /\ [][C7_NeverRebound]_vars

C7_Witness ==
    \E s \in Sessions :
        /\ Constructed(s)
        /\ lastCall.op = "can_evaluate"
        /\ lastCall.session = s
        /\ InEvaluate
        /\ pending.session = s
        /\ pending.recvContext = context[s]

C8_Counts ==
    /\ platCount.evaluate = apiCount.evaluate
    /\ platCount.done = apiCount.returned
                           + (IF pc = "blocked" /\ pending.outcome \in PlatformOutcomes THEN 1 ELSE 0)
    /\ pc = "blocked" <=> InEvaluate

C8_Return ==
    pc = "blocked" =>
        /\ context' = context
        /\ apiCount'.can = apiCount.can
        /\ apiCount'.evaluate = apiCount.evaluate
        /\ pc' # "blocked" =>
              /\ pending.outcome \in PlatformOutcomes
              /\ pending.started = 1
              /\ apiCount'.returned = apiCount.returned + 1
              /\ lastCall'.op = "evaluate"
              /\ lastCall'.session = pending.session
              /\ lastCall'.outcome = pending.outcome
        /\ pc' = "blocked" =>
              /\ lastCall' = lastCall
              /\ apiCount' = apiCount
              /\ pending' # pending =>
                    /\ pending.outcome = "pending"
                    /\ pending'.outcome \in PlatformOutcomes
                    /\ pending' = [pending EXCEPT !.outcome = pending'.outcome]

\* C8: evaluate_policy returns only after the one platform evaluation its
\* call started has produced a final outcome, and between the call and the
\* return the calling thread takes no other step.
C8_BlocksUntilOutcome ==
    []C8_Counts /\ [][C8_Return]_vars

C8_Witness ==
    /\ lastCall.op = "evaluate"
    /\ lastCall.outcome = "lockout"
    /\ pc = "idle"
    /\ apiCount.returned = 1
    /\ platCount.done = 1

C9_Counts ==
    /\ platCount.can = apiCount.can
    /\ platCount.evaluate = apiCount.evaluate

C9_Step ==
    /\ apiCount'.evaluate # apiCount.evaluate =>
          /\ apiCount'.evaluate = apiCount.evaluate + 1
          /\ platCount'.evaluate = platCount.evaluate + 1
          /\ platCount'.can = platCount.can
    /\ apiCount'.can # apiCount.can =>
          /\ apiCount'.can = apiCount.can + 1
          /\ platCount'.can = platCount.can + 1
          /\ platCount'.evaluate = platCount.evaluate
    /\ (apiCount'.evaluate = apiCount.evaluate /\ apiCount'.can = apiCount.can) =>
          (platCount'.can = platCount.can /\ platCount'.evaluate = platCount.evaluate)

\* C9: every evaluate_policy call starts exactly one platform evaluation and
\* no can-evaluate query, whatever was called before and whatever it
\* returned; every can_evaluate_policy call makes exactly one can-evaluate
\* query and starts no evaluation.
C9_NoShortCircuit ==
    []C9_Counts /\ [][C9_Step]_vars

C9_Witness ==
    \E s \in Sessions :
        /\ lastCall.op = "can_evaluate"
        /\ lastCall.session = s
        /\ ~lastCall.result
        /\ pc = "blocked"
        /\ pending.session = s
        /\ pending.policy = lastCall.policy
        /\ platCount.can = 1
        /\ platCount.evaluate = 1

\* C10: enum -> integer is injective on all five variants, enum -> integer ->
\* enum is the identity on all five, and integer -> enum -> integer is the
\* identity on -1, 1, 2, 3, 4 and gives -1 for every other integer.
C10_FullRoundTrip ==
    /\ "into" \in conv.done =>
          \A q \in LAPolicy : Int_from(q) = conv.intOut => q = conv.polIn
    /\ "polBack" \in conv.done => conv.polBack = conv.polIn
    /\ "intBack" \in conv.done =>
          conv.intBack = IF conv.intIn \in {0 - 1, 1, 2, 3, 4} THEN conv.intIn ELSE 0 - 1

C10_Witness ==
    /\ {"polBack", "intBack"} \subseteq conv.done
    /\ conv.polIn = "Unknown"
    /\ conv.polBack = "Unknown"
    /\ conv.intIn = 0
    /\ conv.intBack = 0 - 1

====
